---------------------------- MODULE Spec2Model ----------------------------
(***************************************************************************)
(* A model of the hunt indexing library (src/lib/src/lib.rs).              *)
(*                                                                         *)
(* A Rust `String` is modelled as the sequence of its Unicode scalar       *)
(* values (code points).  The byte view that `str::len` and `&text[i..]`   *)
(* work on is recovered through Width: a code point below 128 takes one    *)
(* UTF-8 byte, any other code point of the model takes two.  Byte-wise     *)
(* comparison of UTF-8 strings is the lexicographic comparison of the code *)
(* point sequences, which is what StrLess computes.                        *)
(*                                                                         *)
(* A `Vec` is a sequence (Rust index i is TLA+ index i + 1), a `HashMap`   *)
(* is a function on its key set, an `Option`/`Result`/panic outcome is a   *)
(* tagged record.                                                          *)
(***************************************************************************)
EXTENDS Integers, Sequences, FiniteSets, TLC

VARIABLES
    files,       \* the file system the library reads: path -> content or unreadable
    collection,  \* the FMIndexCollection the caller holds (Vec<FMIndex>)
    disk,        \* the index file: whether it exists, and its cells
    last_write,  \* what the last write to the index file left: nothing yet,
                 \* the whole encoding of a collection, or a part of one
    ret          \* the last library call: its name, arguments and outcome

vars == <<files, collection, disk, last_write, ret>>

---------------------------------------------------------------------------
(* Bounds of the model *)

MaxTextLen == 4
MaxQueryLen == 2
MaxDocLen == 2
MaxPaths == 2
MaxDistance == 1

---------------------------------------------------------------------------
(* Outcomes *)

Ok(v) == [tag |-> "ok", val |-> v]
Err(e) == [tag |-> "err", err |-> e]
Panic == [tag |-> "panic"]
None == [tag |-> "none"]
Some(v) == [tag |-> "some", val |-> v]

---------------------------------------------------------------------------
(* Strings *)

\* Code points used by the model's texts.
CH == [space |-> 32, dollar |-> 36, dot |-> 46, A |-> 65, T |-> 84,
       a |-> 97, b |-> 98, c |-> 99, e |-> 101, f |-> 102, h |-> 104,
       i |-> 105, k |-> 107, n |-> 110, o |-> 111, q |-> 113, r |-> 114,
       s |-> 115, t |-> 116, u |-> 117, x |-> 120, eacute |-> 233]

\* A sequence given as a function on 1..n, with its elements evaluated (as
\* Iterator::collect does).
Collect(f) == SubSeq(f, 1, Len(f))

SeqsUpTo(S, n) == UNION {[1..k -> S] : k \in 0..n}

\* UTF-8 width of a code point (the model has no code point above 0x7FF).
Width(c) == IF c < 128 THEN 1 ELSE 2

RECURSIVE ByteLen(_)
\* str::len: the length in bytes.
ByteLen(text) == IF text = <<>> THEN 0 ELSE Width(Head(text)) + ByteLen(Tail(text))

\* The byte offset at which the k-th character (1-based) starts.
ByteOffset(text, k) == ByteLen(SubSeq(text, 1, k - 1))

\* str::is_char_boundary
IsCharBoundary(text, i) == \E k \in 1..(Len(text) + 1) : ByteOffset(text, k) = i

\* &text[i..] for a byte offset i that is a char boundary.
SliceFrom(text, i) ==
    LET k == CHOOSE j \in 1..(Len(text) + 1) : ByteOffset(text, j) = i
    IN SubSeq(text, k, Len(text))

\* &text[..i] for a byte offset i that is a char boundary.
SliceTo(text, i) ==
    LET k == CHOOSE j \in 1..(Len(text) + 1) : ByteOffset(text, j) = i
    IN SubSeq(text, 1, k - 1)

\* Ord for str: lexicographic, a proper prefix is smaller.
StrLess(x, y) ==
    \E k \in 1..Len(y) :
        /\ k <= Len(x) + 1
        /\ \A j \in 1..(k - 1) : x[j] = y[j]
        /\ (k = Len(x) + 1 \/ x[k] < y[k])

\* slice::sort and sort_by_key are stable: a key goes after the keys that are
\* smaller and after the equal keys that precede it.  The result is the
\* sequence of positions (1-based) of `keys` in sorted order.
SortedPositions(keys) ==
    LET n == Len(keys)
        rank == Collect([p \in 1..n |-> Cardinality({q \in 1..n :
                       \/ StrLess(keys[q], keys[p])
                       \/ (~StrLess(keys[p], keys[q]) /\ q < p)})])
    IN Collect([k \in 1..n |-> CHOOSE p \in 1..n : rank[p] = k - 1])

\* The sequences that enumerate the set S once each (a HashSet/HashMap
\* iteration order).
Orderings(S) ==
    {o \in [1..Cardinality(S) -> S] : \A x \in S : \E k \in DOMAIN o : o[k] = x}

Range(s) == {s[k] : k \in DOMAIN s}

---------------------------------------------------------------------------
(* Tokenizer: Hunt::tokenize *)

\* char::is_alphabetic on the model's code points (letters of Latin-1).
IsAlphabetic(c) ==
    \/ c \in 65..90
    \/ c \in 97..122
    \/ (c \in 192..255 /\ c # 215 /\ c # 247)

\* char::to_lowercase on the model's code points.
ToLowerChar(c) ==
    IF c \in 65..90 \/ (c \in 192..222 /\ c # 215) THEN c + 32 ELSE c

\* str::to_lowercase
to_lowercase(word) == Collect([k \in 1..Len(word) |-> ToLowerChar(word[k])])

\* UAX #29 on the model's alphabet: a letter is part of a word, and so is a
\* full stop between two letters (rules WB6/WB7); nothing else is.
InWord(text, k) ==
    \/ IsAlphabetic(text[k])
    \/ /\ text[k] = CH.dot
       /\ k > 1 /\ k < Len(text)
       /\ IsAlphabetic(text[k - 1]) /\ IsAlphabetic(text[k + 1])

\* str::unicode_words: the maximal runs of word characters, as a set.
unicode_words(text) ==
    {SubSeq(text, lo, hi) : <<lo, hi>> \in
        {p \in (1..Len(text)) \X (1..Len(text)) :
            /\ p[1] <= p[2]
            /\ \A k \in p[1]..p[2] : InWord(text, k)
            /\ (p[1] = 1 \/ ~InWord(text, p[1] - 1))
            /\ (p[2] = Len(text) \/ ~InWord(text, p[2] + 1))}}

\* stop_words::get(LANGUAGE::English): the entries of the English list that
\* the model's texts can spell ("the", "a"); every entry is lower case.
StopWords == {<<CH.t, CH.h, CH.e>>, <<CH.a>>}

\* The HashSet tokenize fills: the word is looked up in the stop words as it
\* stands in the text, and lower-cased only when it is inserted.
TokenSet(text) ==
    {to_lowercase(word) : word \in {w \in unicode_words(text) : w \notin StopWords}}

\* tokenize returns the set's elements in the set's iteration order.
tokenize(text) == Orderings(TokenSet(text))

---------------------------------------------------------------------------
(* Suffix array and Burrows-Wheeler transform *)

\* Slicing a str at a byte offset inside a character panics; both builders
\* slice at every offset 0..text.len()-1.
SlicesPanic(text) ==
    \E i \in 0..(ByteLen(text) - 1) : ~IsCharBoundary(text, i)

\* Hunt::suffix_array: the byte offsets 0..len-1 sorted by the suffix that
\* starts there.
suffix_array(text) ==
    IF SlicesPanic(text) THEN Panic
    ELSE LET n == ByteLen(text)
             keys == Collect([k \in 1..n |-> SliceFrom(text, k - 1)])
             pos == SortedPositions(keys)
         IN Ok(Collect([k \in 1..n |-> pos[k] - 1]))

\* Hunt::build_bwt: the last character of every rotation, the rotations
\* sorted as strings.
build_bwt(text) ==
    IF SlicesPanic(text) THEN Panic
    ELSE LET n == ByteLen(text)
             rotations == Collect([k \in 1..n |->
                              SliceFrom(text, k - 1) \o SliceTo(text, k - 1)])
             pos == SortedPositions(rotations)
         IN Ok(Collect([k \in 1..n |-> rotations[pos[k]][Len(rotations[pos[k]])]]))

---------------------------------------------------------------------------
(* Occurrence tables *)

RECURSIVE CountLoop(_, _, _, _)
\* The loop of count_occurrences over bwt.chars().enumerate(), from
\* character i (0-based) on.
CountLoop(bwt, target, i, counts) ==
    IF i >= Len(bwt) THEN counts
    ELSE CountLoop(bwt, target, i + 1,
            [counts EXCEPT ![i + 2] =
                counts[i + 1] + (IF bwt[i + 1] = target THEN 1 ELSE 0)])

\* Hunt::count_occurrences
count_occurrences(bwt, target) ==
    CountLoop(bwt, target, 0, Collect([k \in 1..(ByteLen(bwt) + 1) |-> 0]))

RECURSIVE OccLoop(_, _, _)
\* The loop of compute_occurrences: the entry of the character at i is
\* created zero-filled when it is first seen, and only its cell i + 1 is
\* written, from its cell i.
OccLoop(bwt, i, occ_table) ==
    IF i >= Len(bwt) THEN occ_table
    ELSE LET c == bwt[i + 1]
             counts == IF c \in DOMAIN occ_table THEN occ_table[c]
                       ELSE Collect([k \in 1..(ByteLen(bwt) + 1) |-> 0])
             updated == [counts EXCEPT ![i + 2] = counts[i + 1] + 1]
         IN OccLoop(bwt, i + 1,
                [x \in DOMAIN occ_table \cup {c} |->
                    IF x = c THEN updated ELSE occ_table[x]])

\* Hunt::compute_occurrences
compute_occurrences(bwt) == OccLoop(bwt, 0, <<>>)

---------------------------------------------------------------------------
(* FM-index backward search *)

RECURSIVE FmLoop(_, _, _, _, _)
\* The loop of search_fm_index over query.chars().rev(): k query characters
\* are still to be processed.  Ends with the range, None, or a panic on an
\* index out of bounds.
FmLoop(bwt, query, k, left, right) ==
    IF k = 0 THEN [tag |-> "range", left |-> left, right |-> right]
    ELSE LET occ == count_occurrences(bwt, query[k])
         IN IF left + 1 > Len(occ) \/ right + 1 > Len(occ) THEN Panic
            ELSE IF occ[left + 1] >= occ[right + 1] THEN None
            ELSE FmLoop(bwt, query, k - 1, occ[left + 1], occ[right + 1])

\* Hunt::search_fm_index
search_fm_index(bwt, sa, query) ==
    LET end == FmLoop(bwt, query, Len(query), 0, Len(sa))
    IN IF end.tag # "range" THEN end
       ELSE IF end.left + 1 > Len(sa) THEN Panic
       ELSE Some(sa[end.left + 1])

---------------------------------------------------------------------------
(* Edit distance *)

Min3(x, y, z) == IF x <= y /\ x <= z THEN x ELSE IF y <= z THEN y ELSE z

RECURSIVE levenshtein(_, _)
\* strsim::levenshtein, on characters.
levenshtein(x, y) ==
    IF x = <<>> THEN Len(y)
    ELSE IF y = <<>> THEN Len(x)
    ELSE Min3(levenshtein(Tail(x), y) + 1,
              levenshtein(x, Tail(y)) + 1,
              levenshtein(Tail(x), Tail(y)) + (IF Head(x) = Head(y) THEN 0 ELSE 1))

\* A sort by key that is not stable: equal keys come out in reverse order.
UnstableSortedPositionsByKey(keys) ==
    LET n == Len(keys)
        rank == Collect([p \in 1..n |-> Cardinality({q \in 1..n :
                       keys[q] < keys[p] \/ (keys[q] = keys[p] /\ q > p)})])
    IN Collect([k \in 1..n |-> CHOOSE p \in 1..n : rank[p] = k - 1])

\* slice::sort_by_key on usize keys (stable): the positions (1-based) of
\* `keys` in sorted order.
SortedPositionsByKey(keys) ==
    LET n == Len(keys)
        rank == Collect([p \in 1..n |-> Cardinality({q \in 1..n :
                       keys[q] < keys[p] \/ (keys[q] = keys[p] /\ q < p)})])
    IN Collect([k \in 1..n |-> CHOOSE p \in 1..n : rank[p] = k - 1])

---------------------------------------------------------------------------
(* Index build: Hunt::index_file, Hunt::index_files *)

\* A file of the file system: std::fs::read_to_string fails on an unreadable
\* one.
File(readable, content) == [readable |-> readable, content |-> content]

\* Hunt::index_file on the file system fs: the outcomes it can have (one per
\* iteration order of the token set), an io error, or the panic of build_bwt.
index_file(fs, file_path) ==
    IF ~fs[file_path].readable THEN {Err(file_path)}
    ELSE LET content == fs[file_path].content
             bwt == build_bwt(content)
             sa == suffix_array(content)
         IN IF bwt.tag = "panic" \/ sa.tag = "panic" THEN {Panic}
            ELSE {Ok([filename |-> file_path,
                      bwt |-> bwt.val,
                      suffix_array |-> sa.val,
                      occ_table |-> compute_occurrences(bwt.val),
                      tokens |-> tokens]) : tokens \in tokenize(content)}

RECURSIVE IndexLoop(_, _, _, _)
\* The loop of index_files from the k-th path on: `indexes` is the Vec built
\* so far, `reads` the paths index_file was called on.  `?` returns the first
\* error.
IndexLoop(fs, file_paths, k, acc) ==
    IF k > Len(file_paths)
    THEN {[out |-> Ok(acc.indexes), reads |-> acc.reads]}
    ELSE UNION {
        IF o.tag = "ok"
        THEN IndexLoop(fs, file_paths, k + 1,
                 [indexes |-> Append(acc.indexes, o.val),
                  reads |-> Append(acc.reads, file_paths[k])])
        ELSE {[out |-> o, reads |-> Append(acc.reads, file_paths[k])]}
        : o \in index_file(fs, file_paths[k])}

\* Hunt::index_files
index_files(fs, file_paths) ==
    IndexLoop(fs, file_paths, 1, [indexes |-> <<>>, reads |-> <<>>])

---------------------------------------------------------------------------
(* Search: Hunt::search_exact, Hunt::search_fuzzy *)

RECURSIVE ExactLoop(_, _, _, _)
\* The loop of search_exact from the k-th index on.
ExactLoop(query, indices, k, results) ==
    IF k > Len(indices) THEN Ok(results)
    ELSE IF query \in Range(indices[k].tokens)
         THEN IF Len(indices[k].suffix_array) = 0 THEN Panic
              ELSE ExactLoop(query, indices, k + 1,
                       Append(results, <<indices[k].filename,
                                         indices[k].suffix_array[1]>>))
         ELSE ExactLoop(query, indices, k + 1, results)

\* A search that takes a token for a match as soon as the query is a prefix
\* of it.
search_exact_by_prefix(query, indices) ==
    ExactLoop(query,
              Collect([k \in 1..Len(indices) |->
                  [indices[k] EXCEPT !.tokens =
                      Collect([j \in 1..Len(indices[k].tokens) |->
                          IF Len(query) <= Len(indices[k].tokens[j])
                          THEN SubSeq(indices[k].tokens[j], 1, Len(query))
                          ELSE indices[k].tokens[j]])]]),
              1, <<>>)

\* Hunt::search_exact
search_exact(query, indices) == ExactLoop(query, indices, 1, <<>>)

RECURSIVE FuzzyLoop(_, _, _, _, _, _)
\* The nested loops of search_fuzzy from token j of index k on.
FuzzyLoop(query, max_distance, indices, k, j, results) ==
    IF k > Len(indices) THEN results
    ELSE IF j > Len(indices[k].tokens)
         THEN FuzzyLoop(query, max_distance, indices, k + 1, 1, results)
         ELSE LET token == indices[k].tokens[j]
                  distance == levenshtein(query, token)
              IN FuzzyLoop(query, max_distance, indices, k, j + 1,
                     IF distance <= max_distance
                     THEN Append(results, <<indices[k].filename, token, distance>>)
                     ELSE results)

\* Hunt::search_fuzzy: the hits, sorted by distance.
search_fuzzy(query, max_distance, indices) ==
    LET results == FuzzyLoop(query, max_distance, indices, 1, 1, <<>>)
        pos == SortedPositionsByKey(Collect([k \in 1..Len(results) |-> results[k][3]]))
    IN Collect([k \in 1..Len(results) |-> results[pos[k]]])

---------------------------------------------------------------------------
(* Persistence codec: bincode::serialize / bincode::deserialize           *)
(*                                                                         *)
(* The byte stream is a sequence of cells.  A u64 (a length prefix, a      *)
(* usize) is one cell holding its value; a string or char contributes its  *)
(* UTF-8 bytes, one cell each.  Fields are written in declaration order,   *)
(* a Vec, String or HashMap is prefixed by its length, a HashMap's entries *)
(* are written in the map's iteration order.                               *)

RECURSIVE Utf8(_)
\* The UTF-8 bytes of a string.
Utf8(text) ==
    IF text = <<>> THEN <<>>
    ELSE (IF Head(text) < 128 THEN <<Head(text)>>
          ELSE <<192 + (Head(text) \div 64), 128 + (Head(text) % 64)>>)
         \o Utf8(Tail(text))

EncString(text) == <<ByteLen(text)>> \o Utf8(text)

EncVecUsize(v) == <<Len(v)>> \o v

RECURSIVE EncMapEntries(_, _)
\* The entries of occ_table in the order `keys`.
EncMapEntries(occ_table, keys) ==
    IF keys = <<>> THEN <<>>
    ELSE Utf8(<<Head(keys)>>) \o EncVecUsize(occ_table[Head(keys)])
         \o EncMapEntries(occ_table, Tail(keys))

\* A HashMap<char, Vec<usize>>: one encoding per iteration order.
EncMap(occ_table) ==
    {<<Cardinality(DOMAIN occ_table)>> \o EncMapEntries(occ_table, keys) :
        keys \in Orderings(DOMAIN occ_table)}

RECURSIVE EncStrings(_)
EncStrings(v) == IF v = <<>> THEN <<>> ELSE EncString(Head(v)) \o EncStrings(Tail(v))

EncVecString(v) == <<Len(v)>> \o EncStrings(v)

\* #[derive(Serialize)] for FMIndex
EncFMIndex(index) ==
    {EncString(index.filename) \o EncString(index.bwt)
        \o EncVecUsize(index.suffix_array) \o m \o EncVecString(index.tokens) :
        m \in EncMap(index.occ_table)}

RECURSIVE EncIndexes(_)
EncIndexes(indexes) ==
    IF indexes = <<>> THEN {<<>>}
    ELSE {h \o t : h \in EncFMIndex(Head(indexes)), t \in EncIndexes(Tail(indexes))}

\* bincode::serialize(&FMIndexCollection): the byte streams it can produce.
serialize(indexes) == {<<Len(indexes)>> \o e : e \in EncIndexes(indexes)}

\* A decoder's outcome: the value and the cells left, or a failure.
Dec(val, rest) == [ok |-> TRUE, val |-> val, rest |-> rest]
DecFail == [ok |-> FALSE]

DecU64(bytes) == IF bytes = <<>> THEN DecFail ELSE Dec(Head(bytes), Tail(bytes))

RECURSIVE DecUtf8(_)
\* String::from_utf8 on the bytes of a string: the code points, or a failure.
DecUtf8(bytes) ==
    IF bytes = <<>> THEN Dec(<<>>, <<>>)
    ELSE IF Head(bytes) < 128
         THEN LET t == DecUtf8(Tail(bytes))
              IN IF t.ok THEN Dec(<<Head(bytes)>> \o t.val, <<>>) ELSE DecFail
    ELSE IF Head(bytes) \in 194..223 /\ Len(bytes) >= 2 /\ bytes[2] \in 128..191
         THEN LET t == DecUtf8(SubSeq(bytes, 3, Len(bytes)))
              IN IF t.ok
                 THEN Dec(<<(Head(bytes) - 192) * 64 + (bytes[2] - 128)>> \o t.val, <<>>)
                 ELSE DecFail
    ELSE DecFail

DecString(bytes) ==
    LET n == DecU64(bytes)
    IN IF ~n.ok \/ Len(n.rest) < n.val THEN DecFail
       ELSE LET t == DecUtf8(SubSeq(n.rest, 1, n.val))
            IN IF t.ok THEN Dec(t.val, SubSeq(n.rest, n.val + 1, Len(n.rest)))
               ELSE DecFail

\* A char: one UTF-8 encoded scalar value.
DecChar(bytes) ==
    IF bytes = <<>> THEN DecFail
    ELSE LET w == IF Head(bytes) < 128 THEN 1 ELSE 2
         IN IF Len(bytes) < w THEN DecFail
            ELSE LET t == DecUtf8(SubSeq(bytes, 1, w))
                 IN IF t.ok /\ Len(t.val) = 1
                    THEN Dec(t.val[1], SubSeq(bytes, w + 1, Len(bytes)))
                    ELSE DecFail

DecVecUsize(bytes) ==
    LET n == DecU64(bytes)
    IN IF ~n.ok \/ Len(n.rest) < n.val THEN DecFail
       ELSE Dec(SubSeq(n.rest, 1, n.val), SubSeq(n.rest, n.val + 1, Len(n.rest)))

RECURSIVE DecMapEntries(_, _, _)
\* n more entries of a HashMap; a repeated key replaces the earlier entry.
DecMapEntries(bytes, n, occ_table) ==
    IF n = 0 THEN Dec(occ_table, bytes)
    ELSE LET c == DecChar(bytes)
         IN IF ~c.ok THEN DecFail
            ELSE LET v == DecVecUsize(c.rest)
                 IN IF ~v.ok THEN DecFail
                    ELSE DecMapEntries(v.rest, n - 1,
                            [x \in DOMAIN occ_table \cup {c.val} |->
                                IF x = c.val THEN v.val ELSE occ_table[x]])

DecMap(bytes) ==
    LET n == DecU64(bytes)
    IN IF ~n.ok THEN DecFail ELSE DecMapEntries(n.rest, n.val, <<>>)

RECURSIVE DecStringsPrepending(_, _, _)
\* A decoder of Vec<String> that yields the strings in reverse order.
DecStringsPrepending(bytes, n, acc) ==
    IF n = 0 THEN Dec(acc, bytes)
    ELSE LET t == DecString(bytes)
         IN IF ~t.ok THEN DecFail
            ELSE DecStringsPrepending(t.rest, n - 1, <<t.val>> \o acc)

RECURSIVE DecStrings(_, _, _)
DecStrings(bytes, n, acc) ==
    IF n = 0 THEN Dec(acc, bytes)
    ELSE LET t == DecString(bytes)
         IN IF ~t.ok THEN DecFail ELSE DecStrings(t.rest, n - 1, Append(acc, t.val))

DecVecString(bytes) ==
    LET n == DecU64(bytes)
    IN IF ~n.ok THEN DecFail ELSE DecStrings(n.rest, n.val, <<>>)

\* #[derive(Deserialize)] for FMIndex
DecFMIndex(bytes) ==
    LET filename == DecString(bytes)
    IN IF ~filename.ok THEN DecFail ELSE
    LET bwt == DecString(filename.rest)
    IN IF ~bwt.ok THEN DecFail ELSE
    LET sa == DecVecUsize(bwt.rest)
    IN IF ~sa.ok THEN DecFail ELSE
    LET occ_table == DecMap(sa.rest)
    IN IF ~occ_table.ok THEN DecFail ELSE
    LET tokens == DecVecString(occ_table.rest)
    IN IF ~tokens.ok THEN DecFail ELSE
       Dec([filename |-> filename.val,
            bwt |-> bwt.val,
            suffix_array |-> sa.val,
            occ_table |-> occ_table.val,
            tokens |-> tokens.val], tokens.rest)

RECURSIVE DecIndexes(_, _, _)
DecIndexes(bytes, n, acc) ==
    IF n = 0 THEN Dec(acc, bytes)
    ELSE LET t == DecFMIndex(bytes)
         IN IF ~t.ok THEN DecFail ELSE DecIndexes(t.rest, n - 1, Append(acc, t.val))

\* bincode::deserialize::<FMIndexCollection>: trailing bytes are allowed.
deserialize(bytes) ==
    LET n == DecU64(bytes)
    IN IF ~n.ok THEN DecFail ELSE DecIndexes(n.rest, n.val, <<>>)

---------------------------------------------------------------------------
(* Inputs *)

P1 == <<CH.f>>
P2 == <<CH.k>>
Paths == {P1, P2}

Banana == <<CH.b, CH.a, CH.n, CH.a, CH.n, CH.a, CH.dollar>>
QuickFox == <<CH.T, CH.h, CH.e, CH.space, CH.q, CH.u, CH.i, CH.c, CH.k, CH.space,
              CH.f, CH.o, CH.x, CH.space, CH.r, CH.u, CH.n, CH.s, CH.dot>>

TextAlphabet == {CH.space, CH.dollar, CH.A, CH.a, CH.b, CH.eacute}
Texts == SeqsUpTo(TextAlphabet, MaxTextLen) \cup {Banana, QuickFox}
Queries == SeqsUpTo({CH.a, CH.b}, MaxQueryLen)

DocAlphabet == {CH.space, CH.A, CH.b, CH.eacute}
Docs == SeqsUpTo(DocAlphabet, MaxDocLen)
SecondDoc == <<CH.b, CH.space, CH.a, CH.b>>
SearchQueries == SeqsUpTo({CH.a, CH.b}, MaxQueryLen)

StoreDocs == {<<>>, <<CH.b, CH.space, CH.b, CH.b>>}
StoreFiles ==
    {[p \in Paths |-> IF p = P1 THEN File(TRUE, d) ELSE File(TRUE, <<CH.b>>)] :
        d \in StoreDocs}

NoFile == [exists |-> FALSE, bytes |-> <<>>]
NoCall == [op |-> "none"]
NoWrite == [state |-> "none", indexes |-> <<>>]

---------------------------------------------------------------------------
(* The library's operations on texts *)

InitText ==
    /\ files = [p \in Paths |-> File(FALSE, <<>>)]
    /\ collection = <<>>
    /\ disk = NoFile
    /\ last_write = NoWrite
    /\ ret = NoCall

\* Every call is made by a caller that holds no result (ret = NoCall); the
\* caller drops the result before its next call (Return).
Return ==
    /\ ret # NoCall
    /\ ret' = NoCall
    /\ UNCHANGED <<files, collection, disk, last_write>>

Tokenize ==
    /\ ret = NoCall
    /\ \E text \in Texts : \E tokens \in tokenize(text) :
           /\ ret' = [op |-> "tokenize", text |-> text, tokens |-> tokens]
           /\ UNCHANGED <<files, collection, disk, last_write>>

SuffixArray ==
    /\ ret = NoCall
    /\ \E text \in Texts :
           /\ ret' = [op |-> "suffix_array", text |-> text, out |-> suffix_array(text)]
           /\ UNCHANGED <<files, collection, disk, last_write>>

BuildBwt ==
    /\ ret = NoCall
    /\ \E text \in Texts :
           /\ ret' = [op |-> "build_bwt", text |-> text, out |-> build_bwt(text)]
           /\ UNCHANGED <<files, collection, disk, last_write>>

ComputeOccurrences ==
    /\ ret = NoCall
    /\ \E bwt \in Texts :
           /\ ret' = [op |-> "compute_occurrences", bwt |-> bwt,
                      out |-> compute_occurrences(bwt)]
           /\ UNCHANGED <<files, collection, disk, last_write>>

\* search_fm_index on the bwt and suffix array of one text.
SearchFmIndex ==
    /\ ret = NoCall
    /\ \E text \in Texts :
           LET bwt == build_bwt(text)
               sa == suffix_array(text)
           IN /\ bwt.tag = "ok"
              /\ \E query \in Queries :
                    ret' = [op |-> "search_fm_index", text |-> text, query |-> query,
                            range |-> FmLoop(bwt.val, query, Len(query), 0, Len(sa.val)),
                            out |-> search_fm_index(bwt.val, sa.val, query)]
              /\ UNCHANGED <<files, collection, disk, last_write>>

NextText ==
    \/ Tokenize
    \/ SuffixArray
    \/ BuildBwt
    \/ ComputeOccurrences
    \/ SearchFmIndex
    \/ Return

TextSpec == InitText /\ [][NextText]_vars

---------------------------------------------------------------------------
(* Building and searching a collection *)

Init ==
    /\ files \in {[p \in Paths |-> IF p = P1 THEN f ELSE File(TRUE, SecondDoc)] :
                    f \in {File(TRUE, d) : d \in Docs} \cup {File(FALSE, <<>>)}}
    /\ collection = <<>>
    /\ disk = NoFile
    /\ last_write = NoWrite
    /\ ret = NoCall

\* index_files; the caller keeps the collection it has unless a new one is
\* returned.
IndexFiles ==
    /\ ret = NoCall
    /\ \E file_paths \in SeqsUpTo(Paths, MaxPaths) :
           \E o \in index_files(files, file_paths) :
               /\ ret' = [op |-> "index_files", paths |-> file_paths,
                          reads |-> o.reads, out |-> o.out]
               /\ collection' = IF o.out.tag = "ok" THEN o.out.val ELSE collection
               /\ UNCHANGED <<files, disk, last_write>>

SearchExact ==
    /\ ret = NoCall
    /\ \E query \in SearchQueries :
           /\ ret' = [op |-> "search_exact", query |-> query,
                      out |-> search_exact(query, collection)]
           /\ UNCHANGED <<files, collection, disk, last_write>>

SearchFuzzy ==
    /\ ret = NoCall
    /\ \E query \in SearchQueries, max_distance \in 0..MaxDistance :
           /\ ret' = [op |-> "search_fuzzy", query |-> query,
                      max_distance |-> max_distance,
                      out |-> search_fuzzy(query, max_distance, collection)]
           /\ UNCHANGED <<files, collection, disk, last_write>>

Next ==
    \/ IndexFiles
    \/ SearchExact
    \/ SearchFuzzy
    \/ Return

Spec == Init /\ [][Next]_vars

---------------------------------------------------------------------------
(* Saving and loading a collection *)

\* The collections index_files builds over the store's file systems.
BuiltCollections ==
    {o.out.val : o \in {x \in UNION {index_files(fs, file_paths) :
                                fs \in StoreFiles,
                                file_paths \in SeqsUpTo(Paths, MaxPaths)} :
                            x.out.tag = "ok"}}

InitStore ==
    /\ files = [p \in Paths |-> File(FALSE, <<>>)]
    /\ collection \in BuiltCollections
    /\ disk = NoFile
    /\ last_write = NoWrite
    /\ ret = NoCall

\* save_fm_indexes: File::create fails and leaves the file as it is, or it
\* truncates the file and write_all fails after k cells, or all is written.
SaveFmIndexes ==
    /\ ret = NoCall
    /\ \/ /\ ret' = [op |-> "save_fm_indexes", out |-> Err("create")]
          /\ UNCHANGED <<files, collection, disk, last_write>>
       \/ \E encoded \in serialize(collection) : \E k \in 0..(Len(encoded) - 1) :
             /\ disk' = [exists |-> TRUE, bytes |-> SubSeq(encoded, 1, k)]
             /\ last_write' = [state |-> "partial", indexes |-> collection]
             /\ ret' = [op |-> "save_fm_indexes", out |-> Err("write")]
             /\ UNCHANGED <<files, collection>>
       \/ \E encoded \in serialize(collection) :
             /\ disk' = [exists |-> TRUE, bytes |-> encoded]
             /\ last_write' = [state |-> "complete", indexes |-> collection]
             /\ ret' = [op |-> "save_fm_indexes", out |-> Ok(<<>>)]
             /\ UNCHANGED <<files, collection>>

\* load_fm_indexes: read fails on a missing file; a decoding error is
\* unwrapped.
LoadFmIndexes ==
    /\ ret = NoCall
    /\ LET decoded == deserialize(disk.bytes)
           out == IF ~disk.exists THEN Err("read")
                  ELSE IF decoded.ok THEN Ok(decoded.val)
                  ELSE Panic
       IN /\ ret' = [op |-> "load_fm_indexes", out |-> out]
          /\ collection' = IF out.tag = "ok" THEN out.val ELSE collection
          /\ UNCHANGED <<files, disk, last_write>>

NextStore ==
    \/ SaveFmIndexes
    \/ LoadFmIndexes
    \/ Return

StoreSpec == InitStore /\ [][NextStore]_vars

---------------------------------------------------------------------------
(* Properties of the text operations (TextSpec) *)

\* The number of occurrences of c among the first i characters of s.
CountIn(s, c, i) == Cardinality({k \in 1..i : s[k] = c})

\* The offsets of text whose suffix starts with query.
Occurrences(text, query) ==
    {i \in 0..(Len(text) - 1) :
        /\ i + Len(query) <= Len(text)
        /\ SubSeq(text, i + 1, i + Len(query)) = query}

\* The text ends with a character that occurs once and is smaller than every
\* other character of the text.
Terminated(text) ==
    /\ text # <<>>
    /\ \A k \in 1..(Len(text) - 1) : text[Len(text)] < text[k]

\* sa holds every offset 0..n-1 once, in the lexicographic order of the
\* suffixes that start there.
IsSortedSuffixArray(text, sa) ==
    /\ Len(sa) = Len(text)
    /\ Range(sa) = 0..(Len(text) - 1)
    /\ \A k \in 1..(Len(sa) - 1) :
          StrLess(SubSeq(text, sa[k] + 1, Len(text)),
                  SubSeq(text, sa[k + 1] + 1, Len(text)))

\* bwt[i] = text[(sa[i] - 1) mod N] for every i.
BwtFollows(text, sa, bwt) ==
    /\ Len(bwt) = Len(text)
    /\ Len(sa) = Len(text)
    /\ \A k \in 1..Len(text) : bwt[k] = text[((sa[k] - 1) % Len(text)) + 1]

\* C2: tokenize returns exactly the distinct lower-cased words of the text
\* that are not stop words, each once; no returned token is a stop word.
C2_TokensAreLowercasedNonStopWords ==
    ret.op = "tokenize" =>
        /\ Range(ret.tokens) =
              {to_lowercase(w) : w \in unicode_words(ret.text)} \ StopWords
        /\ Len(ret.tokens) = Cardinality(Range(ret.tokens))

\* C3: for a text the builders accept, the BWT and the suffix array use the
\* same ordering: both have the length N of the text and
\* build_bwt(text)[i] = text[(suffix_array(text)[i] - 1) mod N].
C3_BwtUsesSuffixArrayOrder ==
    (ret.op = "build_bwt" /\ ret.out.tag = "ok") =>
        /\ suffix_array(ret.text).tag = "ok"
        /\ BwtFollows(ret.text, suffix_array(ret.text).val, ret.out.val)

\* C4: compute_occurrences(bwt) has an entry exactly for the characters of
\* bwt, of length N + 1, whose entry i is the number of occurrences of the
\* character among the first i characters of bwt.
C4_OccurrenceTableIsCumulative ==
    ret.op = "compute_occurrences" =>
        /\ DOMAIN ret.out = Range(ret.bwt)
        /\ \A c \in DOMAIN ret.out :
              /\ Len(ret.out[c]) = Len(ret.bwt) + 1
              /\ \A i \in 0..Len(ret.bwt) :
                    ret.out[c][i + 1] = CountIn(ret.bwt, c, i)

\* C9: on the bwt and suffix array of a text, search_fm_index ends with
\* [left, right) the range of suffix-array positions whose suffixes start
\* with query; it returns None iff query does not occur in the text, and
\* otherwise Some of an offset at which query occurs.
C9_BackwardSearchFindsOccurrences ==
    ret.op = "search_fm_index" =>
        LET sa == suffix_array(ret.text).val
            occ == Occurrences(ret.text, ret.query)
        IN /\ ret.out.tag \in {"none", "some"}
           /\ (ret.out.tag = "none") <=> (occ = {})
           /\ ret.out.tag = "some" =>
                 /\ ret.out.val \in occ
                 /\ ret.range.tag = "range"
                 /\ {sa[k + 1] : k \in ret.range.left..(ret.range.right - 1)} = occ

\* C10: for every text that ends with a terminator occurring once and smaller
\* than every other character, suffix_array(text) is the permutation of
\* 0..N-1 sorted by the suffixes, and build_bwt(text)[i] =
\* text[(suffix_array(text)[i] - 1) mod N]; suffix_array("banana$") =
\* [6,5,3,1,0,4,2] and build_bwt("banana$") = "annb$aa".
C10_TerminatedTextOrdering ==
    (ret.op = "suffix_array" /\ Terminated(ret.text)) =>
        /\ ret.out.tag = "ok"
        /\ build_bwt(ret.text).tag = "ok"
        /\ IsSortedSuffixArray(ret.text, ret.out.val)
        /\ BwtFollows(ret.text, ret.out.val, build_bwt(ret.text).val)
        /\ ret.text = Banana =>
              /\ ret.out.val = <<6, 5, 3, 1, 0, 4, 2>>
              /\ build_bwt(ret.text).val =
                    <<CH.a, CH.n, CH.n, CH.b, CH.dollar, CH.a, CH.a>>

\* The part of C10 the code satisfies: the same, for the terminated texts of
\* single-byte characters.
TerminatedAsciiTextOrdering ==
    (ret.op = "suffix_array" /\ Terminated(ret.text)
        /\ \A k \in 1..Len(ret.text) : Width(ret.text[k]) = 1) =>
        /\ ret.out.tag = "ok"
        /\ build_bwt(ret.text).tag = "ok"
        /\ IsSortedSuffixArray(ret.text, ret.out.val)
        /\ BwtFollows(ret.text, ret.out.val, build_bwt(ret.text).val)
        /\ ret.text = Banana =>
              /\ ret.out.val = <<6, 5, 3, 1, 0, 4, 2>>
              /\ build_bwt(ret.text).val =
                    <<CH.a, CH.n, CH.n, CH.b, CH.dollar, CH.a, CH.a>>

---------------------------------------------------------------------------
(* Properties of building and searching a collection (Spec) *)

C5_FuzzySearchOrdersByDistance ==
    ret.op = "search_fuzzy" =>
        LET out == ret.out
            pairs == UNION {{<<k, j>> : j \in 1..Len(collection[k].tokens)} :
                               k \in 1..Len(collection)}
            token(p) == collection[p[1]].tokens[p[2]]
            d(p) == levenshtein(ret.query, token(p))
            kept == {p \in pairs : d(p) <= ret.max_distance}
            Before(p, q) ==
                \/ d(p) < d(q)
                \/ /\ d(p) = d(q)
                   /\ (p[1] < q[1] \/ (p[1] = q[1] /\ p[2] < q[2]))
        IN /\ Len(out) = Cardinality(kept)
           /\ \A p \in kept :
                 out[Cardinality({q \in kept : Before(q, p)}) + 1] =
                     <<collection[p[1]].filename, token(p), d(p)>>
           /\ \A i \in 1..(Len(out) - 1) : out[i][3] <= out[i + 1][3]
           /\ \A p \in pairs : token(p) = ret.query =>
                 \E i \in 1..Len(out) :
                     out[i] = <<collection[p[1]].filename, ret.query, 0>>

\* A result the sort had to reorder, with two triples of equal distance, a
\* token identical to the query and a token at a greater distance.
C5_Witness ==
    /\ ret.op = "search_fuzzy"
    /\ ret.out # FuzzyLoop(ret.query, ret.max_distance, collection, 1, 1, <<>>)
    /\ \E i, j \in 1..Len(ret.out) : i < j /\ ret.out[i][3] = ret.out[j][3]
    /\ \E i, j \in 1..Len(ret.out) : ret.out[i][3] < ret.out[j][3]
    /\ \E i \in 1..Len(ret.out) : ret.out[i][2] = ret.query /\ ret.out[i][3] = 0

\* C8: index_files returns Ok exactly when every path is readable, with one
\* entry per path in input order; otherwise it returns the error of the first
\* unreadable path and reads no path after it.
C8_IndexFilesAbortsOnFirstUnreadable ==
    ret.op = "index_files" =>
        LET unreadable == {k \in 1..Len(ret.paths) : ~files[ret.paths[k]].readable}
        IN IF unreadable = {}
           THEN /\ ret.out.tag = "ok"
                /\ Len(ret.out.val) = Len(ret.paths)
                /\ \A k \in 1..Len(ret.paths) :
                      ret.out.val[k].filename = ret.paths[k]
                /\ ret.reads = ret.paths
           ELSE LET first == CHOOSE k \in unreadable : \A q \in unreadable : k <= q
                IN /\ ret.out = Err(ret.paths[first])
                   /\ ret.reads = SubSeq(ret.paths, 1, first)

---------------------------------------------------------------------------
(* Properties of saving and loading a collection (StoreSpec) *)

\* C6: load_fm_indexes after a save_fm_indexes that wrote the whole
\* collection, with no other write to the file in between, returns Ok with a
\* collection equal to the saved one.
C6_LoadReturnsSavedCollection ==
    (ret.op = "load_fm_indexes" /\ last_write.state = "complete") =>
        ret.out = Ok(last_write.indexes)

\* A collection of two entries, one with two tokens, loaded after its save.
C6_Witness ==
    /\ ret.op = "load_fm_indexes"
    /\ last_write.state = "complete"
    /\ ret.out.tag = "ok"
    /\ Len(ret.out.val) = 2
    /\ \E k \in 1..2 : Len(ret.out.val[k].tokens) = 2

\* C7: load_fm_indexes on a file that a failed save_fm_indexes left partially
\* written returns an error: neither Ok nor a panic.
C7_LoadOfPartialFileReturnsError ==
    (ret.op = "load_fm_indexes" /\ last_write.state = "partial") =>
        ret.out.tag = "err"

============================================================================
